---------------------------- MODULE Spec2Model ----------------------------
(***************************************************************************)
(* The app auto-updater of auto-claude-ui/src/preload/api/index.ts.        *)
(*                                                                         *)
(* The module keeps one piece of state of its own (mainWindow), registers  *)
(* six listeners on electron-updater's autoUpdater each time               *)
(* initializeAppUpdater runs, arms a one-shot and a repeating timer, and   *)
(* exports four commands that call straight into autoUpdater.              *)
(*                                                                         *)
(* autoUpdater is a collaborator: its checks and downloads are in flight   *)
(* between the call and the step in which it settles them, and every       *)
(* outcome it can produce (failure, any reported version, progress in any  *)
(* non-decreasing steps) is a choice of the model.  The update state       *)
(* (phase, pendingInfo, progress, lastError) is not stored by the source:  *)
(* it is recorded here from the updater events the listeners are written   *)
(* for, and a field changes only when an event carries a new value for it. *)
(***************************************************************************)
EXTENDS Naturals, Sequences, FiniteSets, Bags

\* ----------------------------------------------------------------- bounds
MaxInit == 2          \* calls of initializeAppUpdater
MaxInFlight == 2      \* checks and downloads of autoUpdater in flight together
TotalBytes == 2       \* size of the update package
NewerVersions == 1    \* versions above currentVersion the release source may report

\* -------------------------------------------------------------- constants
\* autoUpdater.currentVersion.version (versions are ordered numbers)
currentVersion == 2

\* autoUpdater.autoDownload
autoDownload == TRUE

Versions == 1..(currentVersion + NewerVersions)

NoWindow == "null"
Window == "window"
NoInfo == 0

TimerCallers == {"startup", "periodic"}
Callers == TimerCallers \cup {"manual"}

VARIABLES
    mainWindow,   \* let mainWindow: BrowserWindow | null
    handlers,     \* listeners registered per autoUpdater event
    timeouts,     \* armed one-shot startup timers
    intervals,    \* armed repeating timers
    active,       \* autoUpdater is active (the app is packaged)
    running,      \* the process has not been ended by the installer
    checks,       \* callers of the checkForUpdates() promises in flight
    downloads,    \* downloads in flight
    phase, pendingInfo, progress, lastError,    \* the update state
    installer,    \* the call of autoUpdater.quitAndInstall the last step made
    unhandled,    \* a rejection escaped a timer callback
    sent,         \* what the last step sent to the renderer, in order
    ret,          \* what the last step handed to the caller of a command
    last          \* the last step: operation and caller

vars == <<mainWindow, handlers, timeouts, intervals, active, running, checks,
          downloads, phase, pendingInfo, progress, lastError, installer,
          unhandled, sent, ret, last>>

\* ------------------------------------------------------------ IPC payloads
Event(ch, version, transferred, cause) ==
    [ch |-> ch, version |-> version, transferred |-> transferred,
     total |-> TotalBytes, cause |-> cause]

NoProgress == [transferred |-> 0, total |-> 0]
NoError == ""
NoCall == [isSilent |-> FALSE, isForceRunAfter |-> FALSE, called |-> FALSE]

NoRet == [kind |-> "none", version |-> NoInfo]
RetNull == [kind |-> "null", version |-> NoInfo]
RetVoid == [kind |-> "void", version |-> NoInfo]
RetThrow == [kind |-> "throw", version |-> NoInfo]
RetInfo(v) == [kind |-> "info", version |-> v]

\* at: bytes the download had transferred when the step failed it
Step(op, by, at) == [op |-> op, by |-> by, at |-> at]

\* ---------------------------------------------------------- the listeners
\* One listener's send: if (mainWindow) mainWindow.webContents.send(...)
OnUpdateAvailable(w, v) ==
    IF w # NoWindow THEN <<Event("update-available", v, 0, "")>> ELSE <<>>

OnUpdateDownloaded(w, v) ==
    IF w # NoWindow THEN <<Event("update-downloaded", v, 0, "")>> ELSE <<>>

\* a listener that forwards only the final progress callback
OnDownloadProgressThrottled(w, t) ==
    IF w # NoWindow /\ t = TotalBytes
    THEN <<Event("download-progress", NoInfo, t, "")>> ELSE <<>>

OnDownloadProgress(w, t) ==
    IF w # NoWindow THEN <<Event("download-progress", NoInfo, t, "")>> ELSE <<>>

OnError(w, cause) ==
    IF w # NoWindow THEN <<Event("update-error", NoInfo, 0, cause)>> ELSE <<>>

\* update-not-available and checking-for-update only log
OnUpdateNotAvailable(w, v) == <<>>

OnCheckingForUpdate(w) == <<>>

\* autoUpdater calls every registered listener of the event, in order
RECURSIVE Emit(_, _)
Emit(n, one) == IF n = 0 THEN <<>> ELSE one \o Emit(n - 1, one)

\* ------------------------------------------------------- catch handlers
\* .catch((error) => console.error(...)) of the two timer callbacks:
\* does the rejection leave the callback?
\* a timer callback without its .catch
TimerCatchMissing(rejected) == rejected

TimerCatch(rejected) == FALSE

\* a manual command that logs the error and does not rethrow it
ManualCatchSwallows(rejected) == FALSE

\* catch (error) { console.error(...); throw error } of the manual commands
ManualCatch(rejected) == rejected

\* a return value decided by "newer than" instead of "different from"
CheckForUpdatesReturnNewer(result) ==
    IF result = NoInfo THEN RetNull
    ELSE IF result > currentVersion THEN RetInfo(result)
    ELSE RetNull

\* checkForUpdates(): the value returned for autoUpdater's result
\* (NoInfo is the absent result)
CheckForUpdatesReturn(result) ==
    IF result = NoInfo THEN RetNull
    ELSE IF result # currentVersion THEN RetInfo(result)
    ELSE RetNull

\* a silent install
QuitAndInstallArgsSilent == [isSilent |-> TRUE, isForceRunAfter |-> TRUE]

\* autoUpdater.quitAndInstall(false, true)
QuitAndInstallArgs == [isSilent |-> FALSE, isForceRunAfter |-> TRUE]

\* the updater announces a version only when it is newer than the running one
IsUpdateAvailable(v) == v > currentVersion

One(x) == SetToBag({x})

Download(by, v) == [by |-> by, version |-> v, transferred |-> 0]

Downloads == [by : {"auto", "manual"}, version : {v \in Versions : IsUpdateAvailable(v)},
              transferred : 0..TotalBytes]

InFlight == BagCardinality(checks) + BagCardinality(downloads)

\* ------------------------------------------------------------------- Init
Init ==
    /\ mainWindow = NoWindow
    /\ handlers = 0
    /\ timeouts = 0
    /\ intervals = 0
    /\ active \in BOOLEAN
    /\ running = TRUE
    /\ checks = EmptyBag
    /\ downloads = EmptyBag
    /\ phase = "Idle"
    /\ pendingInfo = NoInfo
    /\ progress = NoProgress
    /\ lastError = NoError
    /\ installer = NoCall
    /\ unhandled = FALSE
    /\ sent = <<>>
    /\ ret = NoRet
    /\ last = Step("start", "", 0)

\* ------------------------------------------------- initializeAppUpdater
\* an initialisation that registers the listeners and timers but does not
\* keep the window
InitializeAppUpdaterNoWindow ==
    /\ running
    /\ handlers < MaxInit
    /\ mainWindow' = mainWindow
    /\ handlers' = handlers + 1
    /\ timeouts' = timeouts + 1
    /\ intervals' = intervals + 1
    /\ sent' = <<>>
    /\ ret' = NoRet
    /\ last' = Step("initializeAppUpdater", "", 0)
    /\ installer' = NoCall
    /\ UNCHANGED <<active, running, checks, downloads, phase, pendingInfo,
                   progress, lastError, unhandled>>

InitializeAppUpdater ==
    /\ running
    /\ handlers < MaxInit
    /\ mainWindow' = Window
    /\ handlers' = handlers + 1
    /\ timeouts' = timeouts + 1
    /\ intervals' = intervals + 1
    /\ sent' = <<>>
    /\ ret' = NoRet
    /\ last' = Step("initializeAppUpdater", "", 0)
    /\ installer' = NoCall
    /\ UNCHANGED <<active, running, checks, downloads, phase, pendingInfo,
                   progress, lastError, unhandled>>

\* --------------------------------------------- autoUpdater.checkForUpdates
\* The call: an inactive updater resolves with no result at once; an active
\* one emits checking-for-update and leaves the query in flight.
AutoUpdaterCheckForUpdates(by) ==
    IF active
    THEN /\ InFlight < MaxInFlight
         /\ checks' = checks (+) One(by)
         /\ phase' = "Checking"
         /\ sent' = Emit(handlers, OnCheckingForUpdate(mainWindow))
         /\ ret' = NoRet
         /\ last' = Step("check", by, 0)
    ELSE /\ checks' = checks
         /\ phase' = phase
         /\ sent' = <<>>
         /\ ret' = IF by = "manual" THEN CheckForUpdatesReturn(NoInfo) ELSE NoRet
         /\ last' = Step("checkInactive", by, 0)

\* setTimeout(..., 3000): fires once
StartupCheck ==
    /\ running
    /\ timeouts > 0
    /\ timeouts' = timeouts - 1
    /\ AutoUpdaterCheckForUpdates("startup")
    /\ installer' = NoCall
    /\ UNCHANGED <<mainWindow, handlers, intervals, active, running, downloads,
                   pendingInfo, progress, lastError, unhandled>>

\* a repeating callback that waits for the outstanding operations
PeriodicCheckBlocking ==
    /\ running
    /\ intervals > 0
    /\ InFlight = 0
    /\ AutoUpdaterCheckForUpdates("periodic")
    /\ installer' = NoCall
    /\ UNCHANGED <<mainWindow, handlers, timeouts, intervals, active, running,
                   downloads, pendingInfo, progress, lastError, unhandled>>

\* setInterval(..., FOUR_HOURS): fires on every interval
PeriodicCheck ==
    /\ running
    /\ intervals > 0
    /\ AutoUpdaterCheckForUpdates("periodic")
    /\ installer' = NoCall
    /\ UNCHANGED <<mainWindow, handlers, timeouts, intervals, active, running,
                   downloads, pendingInfo, progress, lastError, unhandled>>

\* export async function checkForUpdates(), up to the await
ManualCheck ==
    /\ running
    /\ AutoUpdaterCheckForUpdates("manual")
    /\ installer' = NoCall
    /\ UNCHANGED <<mainWindow, handlers, timeouts, intervals, active, running,
                   downloads, pendingInfo, progress, lastError, unhandled>>

\* The query of a check started by `by` fails: the updater emits error and
\* rejects the promise.
CheckFails(by) ==
    /\ running
    /\ BagIn(by, checks)
    /\ checks' = checks (-) One(by)
    /\ phase' = "Error"
    /\ lastError' = "query"
    /\ sent' = Emit(handlers, OnError(mainWindow, "query"))
    /\ ret' = IF by # "manual" THEN NoRet
              ELSE IF ManualCatch(TRUE) THEN RetThrow ELSE RetNull
    /\ unhandled' = (unhandled \/ (by \in TimerCallers /\ TimerCatch(TRUE)))
    /\ last' = Step("checkFails", by, 0)
    /\ installer' = NoCall
    /\ UNCHANGED <<mainWindow, handlers, timeouts, intervals, active, running,
                   downloads, pendingInfo, progress>>

\* A check resolves with version v, which is not newer: update-not-available.
CheckNotAvailable(by, v) ==
    /\ running
    /\ BagIn(by, checks)
    /\ ~IsUpdateAvailable(v)
    /\ checks' = checks (-) One(by)
    /\ phase' = "Idle"
    /\ sent' = Emit(handlers, OnUpdateNotAvailable(mainWindow, v))
    /\ ret' = IF by = "manual" THEN CheckForUpdatesReturn(v) ELSE NoRet
    /\ last' = Step("checkNotAvailable", by, 0)
    /\ installer' = NoCall
    /\ UNCHANGED <<mainWindow, handlers, timeouts, intervals, active, running,
                   downloads, pendingInfo, progress, lastError, unhandled>>

\* A check resolves with a newer version v: update-available, and with
\* autoDownload the updater starts the download in the same turn.
CheckAvailable(by, v) ==
    /\ running
    /\ BagIn(by, checks)
    /\ IsUpdateAvailable(v)
    /\ checks' = checks (-) One(by)
    /\ pendingInfo' = v
    /\ sent' = Emit(handlers, OnUpdateAvailable(mainWindow, v))
    /\ IF autoDownload
       THEN /\ downloads' = downloads (+) One(Download("auto", v))
            /\ phase' = "Downloading"
       ELSE /\ downloads' = downloads
            /\ phase' = "Available"
    /\ ret' = IF by = "manual" THEN CheckForUpdatesReturn(v) ELSE NoRet
    /\ last' = Step("checkAvailable", by, 0)
    /\ installer' = NoCall
    /\ UNCHANGED <<mainWindow, handlers, timeouts, intervals, active, running,
                   progress, lastError, unhandled>>

\* ------------------------------------------------------ downloadUpdate
\* export async function downloadUpdate() with an update known to the
\* updater: the download starts and the command awaits it.
ManualDownload ==
    /\ running
    /\ pendingInfo # NoInfo
    /\ InFlight < MaxInFlight
    /\ downloads' = downloads (+) One(Download("manual", pendingInfo))
    /\ phase' = "Downloading"
    /\ sent' = <<>>
    /\ ret' = NoRet
    /\ last' = Step("download", "manual", 0)
    /\ installer' = NoCall
    /\ UNCHANGED <<mainWindow, handlers, timeouts, intervals, active, running,
                   checks, pendingInfo, progress, lastError, unhandled>>

\* downloadUpdate() with no update known: the updater emits error and rejects.
ManualDownloadRejected ==
    /\ running
    /\ pendingInfo = NoInfo
    /\ phase' = "Error"
    /\ lastError' = "nocheck"
    /\ sent' = Emit(handlers, OnError(mainWindow, "nocheck"))
    /\ ret' = IF ManualCatch(TRUE) THEN RetThrow ELSE RetVoid
    /\ last' = Step("downloadRejected", "manual", 0)
    /\ installer' = NoCall
    /\ UNCHANGED <<mainWindow, handlers, timeouts, intervals, active, running,
                   checks, downloads, pendingInfo, progress, unhandled>>

\* A progress callback of download d: t bytes transferred so far.
DownloadProgress(d, t) ==
    /\ running
    /\ BagIn(d, downloads)
    /\ t \in d.transferred..TotalBytes
    /\ downloads' = (downloads (-) One(d)) (+) One([d EXCEPT !.transferred = t])
    /\ progress' = [transferred |-> t, total |-> TotalBytes]
    /\ sent' = Emit(handlers, OnDownloadProgress(mainWindow, t))
    /\ ret' = NoRet
    /\ last' = Step("progress", d.by, 0)
    /\ installer' = NoCall
    /\ UNCHANGED <<mainWindow, handlers, timeouts, intervals, active, running,
                   checks, phase, pendingInfo, lastError, unhandled>>

\* Download d completes: update-downloaded.
DownloadDone(d) ==
    /\ running
    /\ BagIn(d, downloads)
    /\ d.transferred = TotalBytes
    /\ downloads' = downloads (-) One(d)
    /\ phase' = "Downloaded"
    /\ pendingInfo' = d.version
    /\ sent' = Emit(handlers, OnUpdateDownloaded(mainWindow, d.version))
    /\ ret' = IF d.by = "manual" THEN RetVoid ELSE NoRet
    /\ last' = Step("downloaded", d.by, 0)
    /\ installer' = NoCall
    /\ UNCHANGED <<mainWindow, handlers, timeouts, intervals, active, running,
                   checks, progress, lastError, unhandled>>

\* Download d fails: the updater emits error; a manual download rejects.
DownloadFails(d) ==
    /\ running
    /\ BagIn(d, downloads)
    /\ downloads' = downloads (-) One(d)
    /\ phase' = "Error"
    /\ lastError' = "download"
    /\ sent' = Emit(handlers, OnError(mainWindow, "download"))
    /\ ret' = IF d.by # "manual" THEN NoRet
              ELSE IF ManualCatch(TRUE) THEN RetThrow ELSE RetVoid
    /\ last' = Step("downloadFails", d.by, d.transferred)
    /\ installer' = NoCall
    /\ UNCHANGED <<mainWindow, handlers, timeouts, intervals, active, running,
                   checks, pendingInfo, progress, unhandled>>

\* ------------------------------------------------------- quitAndInstall
\* The installer either ends the process or refuses.
QuitAndInstall(exits) ==
    /\ running
    /\ installer' = [isSilent |-> QuitAndInstallArgs.isSilent,
                     isForceRunAfter |-> QuitAndInstallArgs.isForceRunAfter,
                     called |-> TRUE]
    /\ running' = ~exits
    /\ sent' = <<>>
    /\ ret' = IF exits THEN NoRet ELSE RetThrow
    /\ last' = Step("quitAndInstall", "manual", 0)
    /\ UNCHANGED <<mainWindow, handlers, timeouts, intervals, active, checks,
                   downloads, phase, pendingInfo, progress, lastError,
                   unhandled>>

Next ==
    \/ InitializeAppUpdater
    \/ StartupCheck
    \/ PeriodicCheck
    \/ ManualCheck
    \/ \E by \in Callers : CheckFails(by)
    \/ \E by \in Callers, v \in Versions : CheckNotAvailable(by, v)
    \/ \E by \in Callers, v \in Versions : CheckAvailable(by, v)
    \/ ManualDownload
    \/ ManualDownloadRejected
    \/ \E d \in Downloads, t \in 0..TotalBytes : DownloadProgress(d, t)
    \/ \E d \in Downloads : DownloadDone(d)
    \/ \E d \in Downloads : DownloadFails(d)
    \/ \E exits \in BOOLEAN : QuitAndInstall(exits)

Spec == Init /\ [][Next]_vars

\* ================================================================ claims
Failures == {"checkFails", "downloadFails", "downloadRejected"}

AllSent(ch) == \A k \in 1..Len(sent) : sent[k].ch = ch

\* C1: a failure of a scheduler-triggered check never leaves the timer
\* callback: it puts phase = Error and hands nothing to anyone, no timer is
\* ever disarmed (one repeating timer per initialisation stays armed), and
\* Error is not terminal: while the process runs the repeating timer can fire
\* from Error, every started check puts phase = Checking, and every check in
\* flight can settle with "no update".
C1_SchedulerFailureContained ==
    /\ ~unhandled
    /\ intervals = handlers
    /\ (last.op = "checkFails" /\ last.by \in TimerCallers)
          => (phase = "Error" /\ ret = NoRet /\ intervals >= 1)
    /\ (running /\ phase = "Error" /\ intervals >= 1 /\ InFlight < MaxInFlight)
          => ENABLED PeriodicCheck
    /\ (last.op = "check") => (phase = "Checking" /\ BagIn(last.by, checks))
    /\ \A by \in Callers :
          (running /\ BagIn(by, checks)) => ENABLED CheckNotAvailable(by, currentVersion)

\* a periodic check has just failed: phase is Error, the error was sent, the
\* repeating timer is armed and can fire again
C1_Witness ==
    /\ last.op = "checkFails" /\ last.by = "periodic"
    /\ phase = "Error" /\ sent # <<>> /\ intervals >= 1
    /\ ENABLED PeriodicCheck

C3_Original ==
    [][ /\ (\E by \in Callers, v \in Versions : CheckAvailable(by, v))
            => /\ sent' # <<>>
               /\ sent'[1].ch = "update-available"
               /\ sent'[1].version = pendingInfo'
               /\ BagIn(Download("auto", pendingInfo'), downloads')
               /\ phase' = "Downloading"
        /\ (phase' = "Downloaded" /\ phase # "Downloaded")
            => phase = "Downloading" ]_vars

\* C4 as stated: while phase is Downloading or Downloaded a check (timer or
\* manual) or a manual download changes nothing of the update state, starts
\* no query and no download, and a manual check returns the pending info.
C4_Original ==
    [][ (/\ phase \in {"Downloading", "Downloaded"}
         /\ active
         /\ StartupCheck \/ PeriodicCheck \/ ManualCheck \/ ManualDownload)
        => /\ UNCHANGED <<phase, pendingInfo, progress, lastError, checks, downloads>>
           /\ ManualCheck => ret' = RetInfo(pendingInfo) ]_vars

\* C5 as stated: however often initializeAppUpdater runs, at most one
\* one-shot timer and exactly one repeating timer are armed, and an updater
\* event is forwarded once.
C5_Original ==
    (handlers >= 1) => (intervals = 1 /\ timeouts <= 1 /\ Len(sent) <= 1)

\* C6 as stated, for a check known to have started from Idle or Downloaded
\* (it is the only operation in flight, phase is still Checking and no error
\* was ever recorded): when it resolves with currentVersion, phase is Idle
\* and pendingInfo is cleared.
C6_Original ==
    [][ \A by \in Callers :
          (/\ CheckNotAvailable(by, currentVersion)
           /\ phase = "Checking" /\ lastError = NoError
           /\ downloads = EmptyBag /\ BagCardinality(checks) = 1)
          => (phase' = "Idle" /\ pendingInfo' = NoInfo) ]_vars

\* C7 as stated: a check that finds no update sends no event, and a manual
\* one returns null.
C7_Original ==
    (last.op = "checkNotAvailable") =>
        /\ sent = <<>>
        /\ (last.by = "manual") => (ret = RetNull)

C9_Original ==
    (last.op = "downloadFails" /\ last.at < TotalBytes) =>
        /\ Len(sent) = 1
        /\ sent[1].ch = "update-error" /\ sent[1].cause = "download"
        /\ phase = "Error"
        /\ progress = NoProgress

\* C10 as stated: every installer call is silent and relaunches.
C10_Original ==
    installer.called => (installer.isSilent /\ installer.isForceRunAfter)

\* C10 as amended: every installer call is made with isSilent = false and
\* isForceRunAfter = true.
C10_InstallArgs ==
    installer.called => (~installer.isSilent /\ installer.isForceRunAfter)

\* quitAndInstall was called with a downloaded update
C10_Witness ==
    installer.called /\ phase = "Downloaded" /\ last.op = "quitAndInstall"

\* C11 as stated: the installer is called only when phase = Downloaded, and
\* when it refuses, the caller gets the failure and phase stays Downloaded.
C11_Original ==
    installer.called =>
        /\ phase = "Downloaded"
        /\ running => ret = RetThrow

\* C12 as stated: at most one check is in flight at any time.
C12_Original ==
    BagCardinality(checks) <= 1

\* C13: an outstanding check or download never stops the repeating timer:
\* one repeating timer per initialisation is armed in every state, and while
\* the process runs it can fire whatever is in flight (in the model: as long
\* as the bound on operations in flight leaves room for the check it starts).
C13_TimerKeepsFiring ==
    /\ intervals = handlers
    /\ (running /\ handlers >= 1 /\ (active => InFlight < MaxInFlight))
          => ENABLED PeriodicCheck
    /\ (last.op = "check" /\ last.by = "periodic")
          => (intervals >= 1 /\ BagIn("periodic", checks))

\* the repeating timer has just fired while a download was outstanding
C13_Witness ==
    /\ last.op = "check" /\ last.by = "periodic"
    /\ BagCardinality(downloads) >= 1
    /\ intervals >= 1

Phases == {"Idle", "Checking", "Available", "Downloading", "Downloaded",
           "InstallPending", "Error"}

\* C14 as stated: phase is always one of the seven values, and every step
\* that leaves Idle goes to Checking.
C14_Original ==
    [][ /\ phase' \in Phases
        /\ (phase = "Idle" /\ phase' # "Idle") => phase' = "Checking" ]_vars

\* C15 as stated: phase becomes Downloading only from Available or from
\* Checking (a check that has just found the update), so not from Error.
C15_Original ==
    [][ (phase' = "Downloading" /\ phase # "Downloading")
          => phase \in {"Available", "Checking"} ]_vars

\* C16 as stated: pendingInfo is present only in Available, Downloading and
\* Downloaded, and progress only in Downloading.
C16_Original ==
    /\ (pendingInfo # NoInfo) => phase \in {"Available", "Downloading", "Downloaded"}
    /\ (progress # NoProgress) => phase = "Downloading"

\* C17 as stated: lastError is present only while phase = Error.
C17_Original ==
    (phase # "Error") => (lastError = NoError)

\* C18 as stated: a download that a check starts is announced by
\* update-available before anything else of it is sent, so a download
\* started before the first listener existed sends no progress event; a
\* progress step sends only progress events of a download still in flight;
\* and a download ends with exactly one event, update-downloaded when it
\* completes and update-error when it fails.
C18_Original ==
    [][ /\ (last.op = "initializeAppUpdater" /\ handlers = 1
            /\ last'.op = "progress") => sent' = <<>>
        /\ (last'.op = "progress")
              => /\ downloads' # EmptyBag
                 /\ \A k \in 1..Len(sent') : sent'[k].ch = "download-progress"
        /\ (last'.op = "downloaded")
              => (Len(sent') = 1 /\ sent'[1].ch = "update-downloaded")
        /\ (last'.op = "downloadFails")
              => (Len(sent') = 1 /\ sent'[1].ch = "update-error") ]_vars

Forwarding == {"checkAvailable", "progress", "downloaded", "checkFails",
               "downloadFails", "downloadRejected"}

\* C19: the window is set exactly when listeners are registered; before
\* initializeAppUpdater no step sends anything, although manual commands
\* drive the updater (check, automatic download, failure); afterwards each
\* registered listener forwards each updater event.
C19_ForwardOnlyAfterInit ==
    /\ (handlers = 0) <=> (mainWindow = NoWindow)
    /\ (handlers = 0) => (sent = <<>> /\ last.by \in {"", "manual", "auto"})
    /\ (handlers >= 1 /\ last.op \in Forwarding) => Len(sent) = handlers

\* before initialisation a manual check has led to a finished download and
\* nothing was ever sent
C19_Witness ==
    /\ handlers = 0 /\ mainWindow = NoWindow
    /\ last.op = "downloaded" /\ phase = "Downloaded" /\ pendingInfo # NoInfo
    /\ sent = <<>>

\* C20: a manual checkForUpdates returns the reported version's info exactly
\* when that version differs from currentVersion, and null when it is equal
\* or when the updater gives no result; for an older version it returns
\* info although nothing is sent, nothing is downloaded and the pending
\* info is not touched.
C20_ReturnByInequality ==
    [][ /\ (last'.op = "checkNotAvailable" /\ last'.by = "manual")
            => /\ \A v \in Versions :
                    CheckNotAvailable("manual", v)
                    => ret' = (IF v # currentVersion THEN RetInfo(v) ELSE RetNull)
               /\ sent' = <<>>
               /\ downloads' = downloads
               /\ pendingInfo' = pendingInfo
        /\ (last'.op = "checkAvailable" /\ last'.by = "manual")
            => /\ ret' = RetInfo(pendingInfo')
               /\ pendingInfo' # currentVersion
        /\ (last'.op = "checkInactive" /\ last'.by = "manual")
            => ret' = RetNull ]_vars

\* a manual check was told an older version: info returned, nothing sent
C20_Witness ==
    /\ last.op = "checkNotAvailable" /\ last.by = "manual"
    /\ ret.kind = "info" /\ ret.version < currentVersion
    /\ handlers >= 1 /\ sent = <<>> /\ phase = "Idle"


=============================================================================
